---- MODULE Spec2Model ----
(***************************************************************************)
(* Model of gds.burp.config (Configuration / Section / Option registry)    *)
(* and of gds.burp.monitor (PluginMonitorThread).                          *)
(*                                                                         *)
(* A Configuration is a record                                             *)
(*   filename, parser, old_sections, parents, lastmtime, sections,         *)
(*   cache_attr                                                            *)
(* where parents is a sequence of Configuration records (the instances     *)
(* are owned by their child, so the tree is a value).                      *)
(***************************************************************************)
EXTENDS Integers, Sequences, FiniteSets, TLC

\* ------------------------------------------------------------------ bounds
\* number of file-system events (write, delete, chmod) in one behaviour
MaxEnv == 2
\* number of events (module saved, dependent collected) around the monitor
MaxMonEnv == 3

\* ------------------------------------------------------------- input sets
Root == "c"
Files == {"c", "p", "q"}
Sections == {"x"}
Keys == {"a"}
\* raw values a file can hold for a key
Vals == {"", "1", "2"}
\* values an editor saves while the application runs
WriteVals == {"1", "2"}
\* the default argument callers pass to get
Defaults == {"", "9"}

\* the bytes C3 A9 (valid UTF-8), the byte E9 (not UTF-8) and what they decode to
Utf8Bytes == "\\xc3\\xa9"
Latin1Bytes == "\\xe9"
DecodedText == "u'\\xe9'"

\* dict.get miss / key not in the mapping
Absent == "<absent>"
\* Option(default=None)
None == "<None>"
\* defaults an Option can be declared with
RegDefaults == {None, "3"}

\* config.py:26  _use_default = object()
UseDefault == "<_use_default>"

\* files a file's inherit.file directive can name in this model (acyclic)
Lower(f) == IF f = "c" THEN {"p", "q"} ELSE IF f = "p" THEN {"q"} ELSE {}

InheritLists(f) ==
    {<<g>> : g \in Lower(f)} \cup
    {l \in Lower(f) \X Lower(f) : l[1] # l[2]}

\* ----------------------------------------------------------- parsed data
EmptyOpts == [k \in Keys |-> Absent]

NoSection == [present |-> FALSE, opts |-> EmptyOpts]

NoInherit == [has |-> FALSE, files |-> <<>>]

\* ConfigParser() with no file read: _sections = {}
EmptyParser == [secs |-> [s \in Sections |-> NoSection], inherit |-> NoInherit]

\* Section.__init__: a proxy not yet made / made with an empty _cache
NoProxy == [made |-> FALSE, cache |-> EmptyOpts]

NewProxy == [made |-> TRUE, cache |-> EmptyOpts]

\* Configuration._sections = {}
NoSections == [s \in Sections |-> NoProxy]

VARIABLES
    disk,       \* the file system: file -> [exists, readable, mtime, data]
    registry,   \* Option.registry: <<section, key>> -> default or Absent
    cfg,        \* the application's Configuration (for file Root)
    last,       \* the last operation performed and what it returned
    nenv,       \* file-system events so far
    mods,       \* the plugin module files: file -> [exists, mtime]
    plugins,    \* the registered dependents: id -> [alive, bad]
    monitoring, \* burp.monitoring: watched file -> sequence of dependent ids
    mtimes,     \* PluginMonitorThread.mtimes: watched file -> time seen, -1 for none
    order,      \* the order in which monitoring.iteritems() yields the files
    pos,        \* the monitor thread: 0 sleeping, i at the i-th file of the loop
    tick,       \* what the current (or last) pass of the loop did
    failed,     \* the watched files whose servicing has raised in some pass
    reparse,    \* the monitor thread inside parse_if_needed: the line it is at
                \* (0 when it is not inside) and its local modtime
    held        \* the Section the application keeps a reference to

monvars == <<mods, plugins, monitoring, mtimes, order, pos, tick, failed, reparse>>

vars == <<disk, registry, cfg, last, nenv, mods, plugins, monitoring, mtimes,
          order, pos, tick, failed, reparse, held>>

\* no exception raised
NoErr == "none"

\* -------------------------------------------------------- ConfigParser
\* has_option taken for "the option has a true value"
HasOptionTruthy(parser, name, key) ==
    /\ parser.secs[name].present
    /\ parser.secs[name].opts[key] \notin {Absent, ""}

\* RawConfigParser.has_option(section, option)
HasOption(parser, name, key) ==
    /\ parser.secs[name].present
    /\ parser.secs[name].opts[key] # Absent

\* RawConfigParser._read: the sections and options of one file are added to
\* the ones the parser already holds; an option the file gives replaces the
\* old one, an option the file lacks is kept.
MergeData(old, new) ==
    [secs |-> [s \in Sections |->
                 [present |-> old.secs[s].present \/ new.secs[s].present,
                  opts |-> [k \in Keys |->
                              IF new.secs[s].opts[k] # Absent
                              THEN new.secs[s].opts[k]
                              ELSE old.secs[s].opts[k]]]],
     inherit |-> IF new.inherit.has THEN new.inherit ELSE old.inherit]

\* self.parser.read(filename): a file that cannot be opened is skipped and
\* is not in the returned list.
ParserRead(parser, filename, d) ==
    IF d[filename].exists /\ d[filename].readable
    THEN [ok |-> TRUE, parser |-> MergeData(parser, d[filename].data)]
    ELSE [ok |-> FALSE, parser |-> parser]

\* self.parser._sections = {}   (config.py:226)
ClearParser(parser) == EmptyParser

\* -------------------------------------------------------- Configuration
\* Configuration.__init__  (config.py:86-94)
Construct(filename, d) ==
    [filename |-> filename,
     parser |-> ParserRead(EmptyParser, filename, d).parser,
     old_sections |-> EmptyParser,
     parents |-> <<>>,
     lastmtime |-> 0,
     sections |-> NoSections,
     cache_attr |-> FALSE]

\* Configuration.__getitem__  (config.py:102-106)
GetItem(c, name) ==
    IF c.sections[name].made
    THEN c
    ELSE [c EXCEPT !.sections[name] = NewProxy]

\* to_unicode (config.py:47-72) on a str: decoded as UTF-8, and as latin1
\* when that fails; both byte strings below decode to the same text, ASCII
\* text decodes to itself.
ToUnicode(value) ==
    IF value \in {Utf8Bytes, Latin1Bytes} THEN DecodedText ELSE value

\* Section.get lines 329-332: a false value becomes u'', a string is decoded
Normalize(value) ==
    IF value \in {"", None} THEN "" ELSE ToUnicode(value)

\* Option.registry.get((self.name, key)) and option.default (config.py:323-324)
RegistryDefault(reg, name, key) ==
    IF reg[<<name, key>>] # Absent THEN reg[<<name, key>>] ELSE UseDefault

RECURSIVE ConfigGet(_, _, _, _, _)
RECURSIVE ParentsGet(_, _, _, _, _)

\* the loop asking each parent with get's own default '' instead of the
\* sentinel, so that a parent answers with a default
ParentsGetDefaulted(parents, i, name, key, reg) ==
    IF i > Len(parents)
    THEN [parents |-> parents, value |-> UseDefault]
    ELSE LET r == ConfigGet(parents[i], name, key, "", reg)
             ps == [parents EXCEPT ![i] = r.cfg]
         IN  IF r.value # UseDefault
             THEN [parents |-> ps, value |-> r.value]
             ELSE ParentsGet(ps, i + 1, name, key, reg)

\* the loop "for parent in self.config.parents" of Section.get
\* (config.py:317-320), from the parent at index i on
ParentsGet(parents, i, name, key, reg) ==
    IF i > Len(parents)
    THEN [parents |-> parents, value |-> UseDefault]
    ELSE LET r == ConfigGet(parents[i], name, key, UseDefault, reg)
             ps == [parents EXCEPT ![i] = r.cfg]
         IN  IF r.value # UseDefault
             THEN [parents |-> ps, value |-> r.value]
             ELSE ParentsGet(ps, i + 1, name, key, reg)

\* Section.get storing what it returns also when that is the caller's default
ConfigGetCachingDefault(c, name, key, default, reg) ==
    LET c1 == GetItem(c, name)
        cached == c1.sections[name].cache[key]
    IN  IF cached # Absent
        THEN [cfg |-> c1, value |-> cached]
        ELSE LET own == HasOption(c1.parser, name, key)
                 pr == IF own
                       THEN [parents |-> c1.parents, value |-> UseDefault]
                       ELSE ParentsGet(c1.parents, 1, name, key, reg)
                 value == IF own THEN c1.parser.secs[name].opts[key]
                          ELSE IF pr.value # UseDefault THEN pr.value
                          ELSE IF default # UseDefault
                               THEN RegistryDefault(reg, name, key)
                               ELSE UseDefault
                 c2 == [c1 EXCEPT !.parents = pr.parents]
             IN  IF value = UseDefault
                 THEN [cfg |-> IF default # UseDefault
                               THEN [c2 EXCEPT !.sections[name].cache[key] = default]
                               ELSE c2,
                       value |-> default]
                 ELSE [cfg |-> [c2 EXCEPT !.sections[name].cache[key] =
                                              Normalize(value)],
                       value |-> Normalize(value)]

\* Configuration.get = self[section].get(key, default)  (config.py:111-116)
\* with Section.get (config.py:304-334). Returns the Configuration after the
\* call (proxies made, caches filled) and the value returned.
ConfigGet(c, name, key, default, reg) ==
    LET c1 == GetItem(c, name)
        cached == c1.sections[name].cache[key]
    IN  IF cached # Absent
        THEN [cfg |-> c1, value |-> cached]
        ELSE LET own == HasOption(c1.parser, name, key)
                 pr == IF own
                       THEN [parents |-> c1.parents, value |-> UseDefault]
                       ELSE ParentsGet(c1.parents, 1, name, key, reg)
                 value == IF own THEN c1.parser.secs[name].opts[key]
                          ELSE IF pr.value # UseDefault THEN pr.value
                          ELSE IF default # UseDefault
                               THEN RegistryDefault(reg, name, key)
                               ELSE UseDefault
                 c2 == [c1 EXCEPT !.parents = pr.parents]
             IN  IF value = UseDefault
                 THEN [cfg |-> c2, value |-> default]
                 ELSE [cfg |-> [c2 EXCEPT !.sections[name].cache[key] =
                                              Normalize(value)],
                       value |-> Normalize(value)]

\* Configuration(filename) following the new parent's own inherit.file
\* directive at once, one level down
BuildParentsDeep(parser, d) ==
    IF parser.inherit.has
    THEN [i \in 1..Len(parser.inherit.files) |->
            LET parent == Construct(parser.inherit.files[i], d)
            IN  [parent EXCEPT !.parents =
                    IF parent.parser.inherit.has
                    THEN [j \in 1..Len(parent.parser.inherit.files) |->
                            Construct(parent.parser.inherit.files[j], d)]
                    ELSE <<>>]]
    ELSE <<>>

\* the parents named by the inherit.file directive (config.py:235-242):
\* one fresh Configuration per listed file, in listed order
BuildParents(parser, d) ==
    IF parser.inherit.has
    THEN [i \in 1..Len(parser.inherit.files) |->
            Construct(parser.inherit.files[i], d)]
    ELSE <<>>

\* what raising IOError("...%(file)s..." % (self.filename, )) raises
\* (config.py:228-229): the format names a mapping key and is given a tuple
ReadFailure == "TypeError"

RECURSIVE ParseIfNeeded(_, _, _)
RECURSIVE ParentsParse(_, _, _, _, _)

\* the loop "for parent in self.parents: changed |= parent.parse_if_needed"
\* (config.py:244-245), from the parent at index i on; an exception raised by
\* a parent ends the loop
ParentsParse(parents, i, force, d, changed) ==
    IF i > Len(parents)
    THEN [parents |-> parents, changed |-> changed, err |-> NoErr]
    ELSE LET r == ParseIfNeeded(parents[i], force, d)
             ps == [parents EXCEPT ![i] = r.cfg]
         IN  IF r.err # NoErr
             THEN [parents |-> ps, changed |-> changed, err |-> r.err]
             ELSE ParentsParse(ps, i + 1, force, d, changed \/ r.changed)

\* os.path.isfile taken to hold of every path
IsFileAlways(d, filename) == TRUE

\* os.path.isfile(self.filename)  (config.py:218)
IsFile(d, filename) == d[filename].exists

\* the test of line 224 with >= for >
DueNotOlder(force, modtime, lastmtime) == force \/ modtime >= lastmtime

\* force or modtime > self._lastmtime  (config.py:224)
Due(force, modtime, lastmtime) == force \/ modtime > lastmtime

\* line 225 left out: the Section proxies and their caches are kept
KeepSections(c) == c

\* self._sections = {}  (config.py:225)
DropSections(c) == [c EXCEPT !.sections = NoSections]

\* line 225 moved above the test of line 224: every call on an existing
\* file drops the Section proxies, due or not
ParseIfNeededDropping(c, force, d) ==
    IF ~IsFile(d, c.filename)
    THEN [cfg |-> c, changed |-> FALSE, err |-> NoErr]
    ELSE LET modtime == d[c.filename].mtime
         IN  IF Due(force, modtime, c.lastmtime)
             THEN LET c1 == [DropSections(c) EXCEPT
                                !.parser = ClearParser(c.parser)]
                      rd == ParserRead(c1.parser, c.filename, d)
                  IN  IF ~rd.ok
                      THEN [cfg |-> c1, changed |-> FALSE, err |-> ReadFailure]
                      ELSE [cfg |-> [c1 EXCEPT
                                       !.parser = rd.parser,
                                       !.lastmtime = modtime,
                                       !.old_sections = rd.parser,
                                       !.parents = BuildParents(rd.parser, d),
                                       !.cache_attr = TRUE],
                            changed |-> TRUE, err |-> NoErr]
             ELSE LET pp == ParentsParse(c.parents, 1, force, d, FALSE)
                      c1 == [DropSections(c) EXCEPT !.parents = pp.parents]
                  IN  IF pp.err # NoErr
                      THEN [cfg |-> c1, changed |-> FALSE, err |-> pp.err]
                      ELSE [cfg |-> IF pp.changed
                                    THEN [c1 EXCEPT !.cache_attr = TRUE]
                                    ELSE c1,
                            changed |-> pp.changed, err |-> NoErr]

\* Configuration.parse_if_needed  (config.py:217-249). Returns the
\* Configuration after the call, the value returned and the exception raised.
ParseIfNeeded(c, force, d) ==
    IF ~IsFile(d, c.filename)
    THEN [cfg |-> c, changed |-> FALSE, err |-> NoErr]
    ELSE LET modtime == d[c.filename].mtime
         IN  IF Due(force, modtime, c.lastmtime)
             THEN LET c1 == [DropSections(c) EXCEPT
                                !.parser = ClearParser(c.parser)]
                      rd == ParserRead(c1.parser, c.filename, d)
                  IN  IF ~rd.ok
                      THEN [cfg |-> c1, changed |-> FALSE, err |-> ReadFailure]
                      ELSE [cfg |-> [c1 EXCEPT
                                       !.parser = rd.parser,
                                       !.lastmtime = modtime,
                                       !.old_sections = rd.parser,
                                       !.parents = BuildParents(rd.parser, d),
                                       !.cache_attr = TRUE],
                            changed |-> TRUE, err |-> NoErr]
             ELSE LET pp == ParentsParse(c.parents, 1, force, d, FALSE)
                      c1 == [c EXCEPT !.parents = pp.parents]
                  IN  IF pp.err # NoErr
                      THEN [cfg |-> c1, changed |-> FALSE, err |-> pp.err]
                      ELSE [cfg |-> IF pp.changed
                                    THEN [c1 EXCEPT !.cache_attr = TRUE]
                                    ELSE c1,
                            changed |-> pp.changed, err |-> NoErr]

\* Configuration.remove = self[section].remove(key)  (config.py:185-187):
\* __getitem__ makes the proxy, then the attribute lookup of "remove" on a
\* Section (config.py:252-409, no such method or slot) raises
ConfigRemove(c, name, key) ==
    [cfg |-> GetItem(c, name), err |-> "AttributeError"]

\* ------------------------------------------------------------ file system
\* a file that was never created
NoFile == [exists |-> FALSE, readable |-> TRUE, mtime |-> 0, data |-> EmptyParser]

\* the text "[name]\nkey = value" as ConfigParser reads it
SetKey(data, name, key, value) ==
    [data EXCEPT !.secs[name] =
        [present |-> TRUE, opts |-> [@.opts EXCEPT ![key] = value]]]

FileWith(data) == [exists |-> TRUE, readable |-> TRUE, mtime |-> 1, data |-> data]

\* the result of get reported by an operation that is not get
NoVal == "-"

\* the record of an operation: its name, arguments, result and exception;
\* for parse_if_needed also _lastmtime and the application's Section caches
\* as they were before the call; for get also whether every cache was empty
\* before the call, whether the call directly follows a completed
\* parse_if_needed that found the file's time advanced, and what the Section
\* cache held for the key before that parse_if_needed (or, right after a
\* registration, what the get before the registration returned)
Idle(op) ==
    [op |-> op, force |-> FALSE, sec |-> NoVal, key |-> NoVal, dflt |-> NoVal,
     val |-> NoVal, changed |-> FALSE, err |-> NoErr, was |-> 0,
     cached |-> [s \in Sections |-> EmptyOpts],
     fresh |-> FALSE, afterParse |-> FALSE, before |-> Absent]

\* every Section cache of the tree is empty
RECURSIVE CachesEmpty(_)
CachesEmpty(c) ==
    /\ \A s \in Sections : c.sections[s].cache = EmptyOpts
    /\ \A i \in 1..Len(c.parents) : CachesEmpty(c.parents[i])

\* ------------------------------------------------- a Section kept
\* no Section is kept by the application
NoHeld == [has |-> FALSE, name |-> NoVal, attached |-> FALSE, cache |-> EmptyOpts]

\* The Section object the application keeps, across a call that turns the
\* Configuration c into c2. While the object is the one in c._sections
\* (attached) its _cache is the one recorded there; self._sections = {}
\* (config.py:225) takes it out of the dict, and from then on the object and
\* its _cache live on only through the application's reference.
Detach(h, c, c2) ==
    IF h.has /\ h.attached /\ ~c2.sections[h.name].made
    THEN [h EXCEPT !.attached = FALSE, !.cache = c.sections[h.name].cache]
    ELSE h

\* ---------------------------------------------------------------- actions
\* the application calls config.parse_if_needed(force)
ParseAct(force) ==
    LET r == ParseIfNeeded(cfg, force, disk)
    IN  /\ cfg' = r.cfg
        /\ last' = [Idle("parse") EXCEPT
                      !.force = force, !.changed = r.changed, !.err = r.err,
                      !.was = cfg.lastmtime,
                      !.cached = [s \in Sections |-> cfg.sections[s].cache]]
        /\ held' = Detach(held, cfg, r.cfg)
        /\ UNCHANGED <<disk, registry, nenv, monvars>>

\* the application calls config.get(section, key, default)
GetAct(name, key, default) ==
    LET r == ConfigGet(cfg, name, key, default, registry)
    IN  /\ cfg' = r.cfg
        /\ last' = [Idle("get") EXCEPT
                      !.sec = name, !.key = key, !.dflt = default,
                      !.val = r.value, !.fresh = CachesEmpty(cfg),
                      !.afterParse = /\ last.op = "parse"
                                     /\ last.err = NoErr
                                     /\ disk[Root].exists
                                     /\ last.was < disk[Root].mtime,
                      !.before = IF last.op = "parse"
                                 THEN last.cached[name][key]
                                 ELSE IF last.op = "register"
                                 THEN last.val
                                 ELSE Absent]
        /\ UNCHANGED <<disk, registry, nenv, monvars, held>>

\* a component class is defined with Option(section, name, default)
\* (config.py:482-495): the option enters Option.registry, replacing an
\* option registered for the same section and name; the record keeps what
\* the get just before it returned
RegisterAct(name, key, default) ==
    /\ registry[<<name, key>>] # default
    /\ registry' = [registry EXCEPT ![<<name, key>>] = default]
    /\ last' = [Idle("register") EXCEPT
                  !.sec = name, !.key = key,
                  !.dflt = IF last.op = "get" THEN last.dflt ELSE NoVal,
                  !.val = IF last.op = "get" THEN last.val ELSE NoVal]
    /\ UNCHANGED <<disk, cfg, nenv, monvars, held>>

\* the application keeps section = config[name]  (config.py:102-106; a
\* ConfigSection descriptor hands out the same object, config.py:455-460)
ObtainAct(name) ==
    /\ cfg' = GetItem(cfg, name)
    /\ held' = [has |-> TRUE, name |-> name, attached |-> TRUE, cache |-> EmptyOpts]
    /\ last' = [Idle("getitem") EXCEPT !.sec = name]
    /\ UNCHANGED <<disk, registry, nenv, monvars>>

\* section.get(key, default) on the Section object h: Section.get
\* (config.py:304-334) reads and fills the object's own _cache and resolves
\* a miss through self.config, the Configuration as it is now. Returns the
\* Configuration, the kept Section and the value.
SectionGet(c, h, key, default, reg) ==
    IF h.attached
    THEN LET r == ConfigGet(c, h.name, key, default, reg)
         IN  [cfg |-> r.cfg, held |-> h, value |-> r.value]
    ELSE LET own == [c EXCEPT !.sections[h.name] =
                                  [made |-> TRUE, cache |-> h.cache]]
             r == ConfigGet(own, h.name, key, default, reg)
         IN  [cfg |-> [r.cfg EXCEPT !.sections[h.name] = c.sections[h.name]],
              held |-> [h EXCEPT !.cache = r.cfg.sections[h.name].cache],
              value |-> r.value]

\* the application calls get on the Section it keeps
SectionGetAct(key, default) ==
    /\ held.has
    /\ LET r == SectionGet(cfg, held, key, default, registry)
       IN  /\ cfg' = r.cfg
           /\ held' = r.held
           /\ last' = [Idle("section.get") EXCEPT
                         !.sec = held.name, !.key = key, !.dflt = default,
                         !.val = r.value,
                         !.afterParse = /\ last.op = "parse"
                                        /\ last.err = NoErr
                                        /\ last.changed,
                         !.before = IF last.op = "parse"
                                    THEN last.cached[held.name][key]
                                    ELSE Absent]
    /\ UNCHANGED <<disk, registry, nenv, monvars>>

\* ------------------------------------------------ has_option, contains
\* the entry '__name__' that RawConfigParser keeps in the dict of every
\* section it has read, and the name of its defaults section
NameKey == "__name__"

DefaultSect == "DEFAULT"

\* RawConfigParser.has_section(section): section in self._sections (the
\* defaults section is not one of them)
ParserHasSection(parser, name) ==
    name \in Sections /\ parser.secs[name].present

\* RawConfigParser.options(section): the section's dict, updated with
\* self._defaults (empty here: the files have no defaults section), with
\* '__name__' deleted
ParserOptions(parser, name) ==
    {k \in Keys : parser.secs[name].opts[k] # Absent}

\* RawConfigParser.has_option(section, option): for the defaults section
\* option in self._defaults; for a section not read False; else option in
\* self._sections[section] or option in self._defaults
ParserHasOption(parser, name, key) ==
    IF name = "" \/ name = DefaultSect
    THEN FALSE
    ELSE IF ~ParserHasSection(parser, name)
    THEN FALSE
    ELSE key = NameKey \/ (key \in Keys /\ parser.secs[name].opts[key] # Absent)

\* (section, option) in Option.registry  (config.py:215, 271)
InRegistry(reg, name, key) ==
    <<name, key>> \in DOMAIN reg /\ reg[<<name, key>>] # Absent

\* Configuration.has_option  (config.py:203-215)
RECURSIVE ConfigHasOption(_, _, _, _, _)
ConfigHasOption(c, name, key, defaults, reg) ==
    \/ /\ ParserHasSection(c.parser, name)
       /\ key \in ParserOptions(c.parser, name)
    \/ \E i \in 1..Len(c.parents) :
          ConfigHasOption(c.parents[i], name, key, FALSE, reg)
    \/ (defaults /\ InRegistry(reg, name, key))

\* Section.contains  (config.py:265-271)
RECURSIVE SectionContains(_, _, _, _, _)
SectionContains(c, name, key, defaults, reg) ==
    \/ ParserHasOption(c.parser, name, key)
    \/ \E i \in 1..Len(c.parents) :
          SectionContains(c.parents[i], name, key, FALSE, reg)
    \/ (defaults /\ InRegistry(reg, name, key))

\* the application calls config.has_option(section, key, defaults)
HasOptionAct(name, key, defaults) ==
    /\ last' = [Idle("has_option") EXCEPT
                  !.sec = name, !.key = key, !.force = defaults,
                  !.changed = ConfigHasOption(cfg, name, key, defaults, registry)]
    /\ UNCHANGED <<disk, registry, cfg, nenv, monvars, held>>

\* the application calls config[section].contains(key, defaults)
ContainsAct(name, key, defaults) ==
    /\ last' = [Idle("contains") EXCEPT
                  !.sec = name, !.key = key, !.force = defaults,
                  !.changed = SectionContains(cfg, name, key, defaults, registry)]
    /\ UNCHANGED <<disk, registry, cfg, nenv, monvars, held>>

\* --------------------------------------------------------- Section.iterate
\* option names as the files and the registry spell them (optionxform is
\* str, config.py:89: the parser keeps the case)
Names == {"a", "A", "b"}

\* option.lower()  (config.py:286, 290, 296)
LowerCase(n) == IF n = "A" THEN "a" ELSE n

\* the loop over the options a parent yields (config.py:289-293), from
\* index i on: the options set and the options yielded so far
RECURSIVE TakeUnseen(_, _, _, _)
TakeUnseen(opts, i, seen, out) ==
    IF i > Len(opts)
    THEN [seen |-> seen, out |-> out]
    ELSE IF LowerCase(opts[i]) \notin seen
    THEN TakeUnseen(opts, i + 1, seen \cup {LowerCase(opts[i])}, Append(out, opts[i]))
    ELSE TakeUnseen(opts, i + 1, seen, out)

\* Section.iterate  (config.py:275-297) on a Configuration given as the
\* option names of the section in its file, in file order, and its parents;
\* reg is the names registered for the section in the order the registry
\* dict hands them out
RECURSIVE Iterate(_, _, _)
RECURSIVE IterateParents(_, _, _, _, _)
IterateParents(parents, i, reg, seen, out) ==
    IF i > Len(parents)
    THEN [seen |-> seen, out |-> out]
    ELSE LET r == TakeUnseen(Iterate(parents[i], reg, FALSE), 1, seen, out)
         IN  IterateParents(parents, i + 1, reg, r.seen, r.out)

Iterate(tree, reg, defaults) ==
    LET own == tree.options
        seen == {LowerCase(own[i]) : i \in 1..Len(own)}
        pr == IterateParents(tree.parents, 1, reg, seen, own)
    IN  IF defaults
        THEN pr.out \o SelectSeq(reg, LAMBDA o : LowerCase(o) \notin pr.seen)
        ELSE pr.out

\* list(config[section].iterate(defaults=defaults))
IterateAct(defaults) ==
    /\ last' = [last EXCEPT !.op = "iterate", !.defaults = defaults,
                            !.out = Iterate(last.tree, last.reg, defaults)]
    /\ UNCHANGED <<disk, registry, cfg, nenv, monvars, held>>

\* the application calls config.remove(section, key)
RemoveAct(name, key) ==
    LET r == ConfigRemove(cfg, name, key)
    IN  /\ cfg' = r.cfg
        /\ last' = [Idle("remove") EXCEPT !.sec = name, !.key = key, !.err = r.err]
        /\ UNCHANGED <<disk, registry, nenv, monvars, held>>

\* an editor saves file f with one option set, changed or removed
WriteKey(f, name, key, value) ==
    /\ nenv < MaxEnv
    /\ disk[f].data.secs[name].opts[key] # value
    /\ disk' = [disk EXCEPT ![f] =
                  [exists |-> TRUE, readable |-> @.readable, mtime |-> @.mtime + 1,
                   data |-> SetKey(@.data, name, key, value)]]
    /\ nenv' = nenv + 1
    /\ last' = Idle("env")
    /\ UNCHANGED <<registry, cfg, monvars, held>>

\* an editor saves file f with its inherit.file directive set or removed
WriteInherit(f, inh) ==
    /\ nenv < MaxEnv
    /\ disk[f].data.inherit # inh
    /\ disk' = [disk EXCEPT ![f] =
                  [exists |-> TRUE, readable |-> @.readable, mtime |-> @.mtime + 1,
                   data |-> [@.data EXCEPT !.inherit = inh]]]
    /\ nenv' = nenv + 1
    /\ last' = Idle("env")
    /\ UNCHANGED <<registry, cfg, monvars, held>>

\* file f is deleted
DeleteFile(f) ==
    /\ nenv < MaxEnv
    /\ disk[f].exists
    /\ disk' = [disk EXCEPT ![f] = [NoFile EXCEPT !.mtime = disk[f].mtime]]
    /\ nenv' = nenv + 1
    /\ last' = Idle("env")
    /\ UNCHANGED <<registry, cfg, monvars, held>>

\* the permissions of file f change: it can or cannot be opened for reading
Chmod(f) ==
    /\ nenv < MaxEnv
    /\ disk[f].exists
    /\ disk' = [disk EXCEPT ![f].readable = ~@]
    /\ nenv' = nenv + 1
    /\ last' = Idle("env")
    /\ UNCHANGED <<registry, cfg, monvars, held>>

\* ------------------------------------------------------------- monitor
\* the plugin module files and the files the monitor can watch
Modules == {"m"}

Watchable == {Root} \cup Modules

\* the dependents: a Configuration and two menu item handlers
Handlers == {"h1", "h2"}

Dependents == {"cfg"} \cup Handlers

\* the class test of __reload  (monitor.py:58, 68, 72)
Kind(dep) == IF dep = "cfg" THEN "Configuration" ELSE "IMenuItemHandler"

\* os.path.isfile / os.path.getmtime of a watched file
WatchedExists(f) == IF f \in Modules THEN mods[f].exists ELSE disk[f].exists

GetMtime(f) == IF f \in Modules THEN mods[f].mtime ELSE disk[f].mtime

\* self.mtimes.get(filename, -1)  (monitor.py:28)
NotSeen == -1

\* the file has a modification time the monitor has not recorded yet
Pending(f) == WatchedExists(f) /\ GetMtime(f) > mtimes[f]

\* PluginMonitorThread.__init__  (monitor.py:15-20)
MonitorInit(watch) ==
    [f \in Watchable |-> IF f \in watch THEN GetMtime(f) ELSE NotSeen]

\* the monitor thread is not inside parse_if_needed
NotReparsing == [line |-> 0, modtime |-> 0]

\* one pass of the loop that has not started
NoTick ==
    [ran |-> FALSE, changed |-> {}, detected |-> {}, invoked |-> <<>>,
     raised |-> "none", cause |-> "none"]

\* __reload without the test of the weak reference: the dead reference is
\* used as an object
ReloadUnchecked(dep, c) ==
    IF ~plugins[dep].alive
    THEN [cfg |-> c, acted |-> FALSE, err |-> "AttributeError"]
    ELSE IF Kind(dep) = "IMenuItemHandler"
    THEN [cfg |-> c, acted |-> TRUE,
          err |-> IF plugins[dep].bad THEN "ReloadError" ELSE NoErr]
    ELSE LET r == ParseIfNeeded(c, TRUE, disk)
         IN  [cfg |-> r.cfg, acted |-> TRUE, err |-> r.err]

\* PluginMonitorThread.__reload  (monitor.py:45-75): the Configuration after
\* the call, whether a reload action was performed, the exception raised
Reload(dep, c) ==
    IF ~plugins[dep].alive
    THEN [cfg |-> c, acted |-> FALSE, err |-> NoErr]
    ELSE IF Kind(dep) = "IMenuItemHandler"
    THEN [cfg |-> c, acted |-> TRUE,
          err |-> IF plugins[dep].bad THEN "ReloadError" ELSE NoErr]
    ELSE IF Kind(dep) = "Configuration"
    THEN LET r == ParseIfNeeded(c, TRUE, disk)
         IN  [cfg |-> r.cfg, acted |-> TRUE, err |-> r.err]
    ELSE [cfg |-> c, acted |-> FALSE, err |-> NoErr]

\* the loop "for plugin in plugins: self.__reload(plugin)"  (monitor.py:39-41)
\* from the dependent at index i on; an exception ends it
RECURSIVE ReloadAll(_, _, _, _)
ReloadAll(deps, i, c, invoked) ==
    IF i > Len(deps)
    THEN [cfg |-> c, invoked |-> invoked, err |-> NoErr]
    ELSE LET r == Reload(deps[i], c)
             inv == IF r.acted THEN Append(invoked, deps[i]) ELSE invoked
         IN  IF r.err # NoErr
             THEN [cfg |-> r.cfg, invoked |-> inv, err |-> r.err]
             ELSE ReloadAll(deps, i + 1, r.cfg, inv)

\* time.sleep returns and the for loop of run starts  (monitor.py:78-80, 85)
Wake ==
    /\ pos = 0
    /\ Len(order) > 0
    /\ pos' = 1
    /\ tick' = [NoTick EXCEPT
                  !.ran = TRUE,
                  !.changed = {f \in DOMAIN monitoring :
                                  WatchedExists(f) /\ GetMtime(f) > mtimes[f]}]
    /\ last' = Idle("wake")
    /\ UNCHANGED <<held, disk, registry, cfg, nenv, mods, plugins, monitoring, mtimes,
                   order, failed, reparse>>

\* one iteration of the for loop of run: __monitor(filename, plugins) with
\* __has_changed  (monitor.py:25-43, 80-83). An exception ends the pass: it
\* is caught outside the for loop and the thread sleeps.
MonitorFile ==
    /\ pos > 0
    /\ LET f == order[pos]
           after == IF pos = Len(order) THEN 0 ELSE pos + 1
       IN  IF ~WatchedExists(f)
           THEN /\ pos' = 0
                /\ tick' = [tick EXCEPT !.raised = f, !.cause = "getmtime"]
                /\ failed' = failed \cup {f}
                /\ UNCHANGED <<cfg, mtimes>>
           ELSE IF GetMtime(f) > mtimes[f]
           THEN LET r == ReloadAll(monitoring[f], 1, cfg, tick.invoked)
                IN  /\ mtimes' = [mtimes EXCEPT ![f] = GetMtime(f)]
                    /\ cfg' = r.cfg
                    /\ tick' = [tick EXCEPT
                                  !.detected = @ \cup {f},
                                  !.invoked = r.invoked,
                                  !.raised = IF r.err # NoErr THEN f ELSE @,
                                  !.cause = IF r.err # NoErr THEN "reload" ELSE @]
                    /\ failed' = IF r.err # NoErr THEN failed \cup {f} ELSE failed
                    /\ pos' = IF r.err # NoErr THEN 0 ELSE after
           ELSE /\ pos' = after
                /\ UNCHANGED <<cfg, mtimes, tick, failed>>
    /\ last' = Idle("monitor")
    /\ UNCHANGED <<held, disk, registry, nenv, mods, plugins, monitoring, order, reparse>>

\* a plugin module file is saved; the handlers in bad are those whose
\* reload (reload(module), getattr, patch_menu_item; monitor.py:59-66) will
\* raise with the new source
SaveModule(f, bad) ==
    /\ nenv < MaxMonEnv
    /\ mods' = [mods EXCEPT ![f] = [exists |-> TRUE, mtime |-> @.mtime + 1]]
    /\ plugins' = [d \in Dependents |->
                     IF d \in Handlers
                     THEN [plugins[d] EXCEPT !.bad = (d \in bad)]
                     ELSE plugins[d]]
    /\ nenv' = nenv + 1
    /\ last' = Idle("env")
    /\ UNCHANGED <<held, disk, registry, cfg, monitoring, mtimes, order, pos, tick, failed,
                   reparse>>

\* the object a dependent's weak reference points to is collected: from
\* then on plugin.get('instance')() is None  (monitor.py:50-52)
Collect(dep) ==
    /\ nenv < MaxMonEnv
    /\ plugins[dep].alive
    /\ plugins' = [plugins EXCEPT ![dep].alive = FALSE]
    /\ nenv' = nenv + 1
    /\ last' = Idle("env")
    /\ UNCHANGED <<held, disk, registry, cfg, mods, monitoring, mtimes, order, pos, tick,
                   failed, reparse>>

\* an editor saves file f without changing its text
Touch(f) ==
    /\ nenv < MaxEnv
    /\ disk[f].exists
    /\ disk' = [disk EXCEPT ![f].mtime = @ + 1]
    /\ nenv' = nenv + 1
    /\ last' = Idle("env")
    /\ UNCHANGED <<registry, cfg, monvars, held>>

\* the monitor thread finds the configuration file changed and enters
\* instance().parse_if_needed(force=True)  (monitor.py:26-29, 68-70;
\* config.py:218-224)
ReparseBegin ==
    /\ reparse.line = 0
    /\ Pending(Root)
    /\ plugins["cfg"].alive
    /\ mtimes' = [mtimes EXCEPT ![Root] = GetMtime(Root)]
    /\ reparse' = IF IsFile(disk, cfg.filename) /\ Due(TRUE, disk[Root].mtime, cfg.lastmtime)
                  THEN [line |-> 225, modtime |-> disk[Root].mtime]
                  ELSE NotReparsing
    /\ last' = Idle("monitor")
    /\ UNCHANGED <<held, disk, registry, cfg, nenv, mods, plugins, monitoring, order, pos,
                   tick, failed>>

\* the monitor thread executes the next statement of parse_if_needed
\* (config.py:225-248); no lock is taken, so other threads run in between
ReparseStep ==
    /\ reparse.line # 0
    /\ CASE reparse.line = 225 ->
             /\ cfg' = DropSections(cfg)
             /\ reparse' = [reparse EXCEPT !.line = 226]
         [] reparse.line = 226 ->
             /\ cfg' = [cfg EXCEPT !.parser = ClearParser(cfg.parser)]
             /\ reparse' = [reparse EXCEPT !.line = 227]
         [] reparse.line = 227 ->
             LET rd == ParserRead(cfg.parser, cfg.filename, disk)
             IN  IF rd.ok
                 THEN /\ cfg' = [cfg EXCEPT !.parser = rd.parser]
                      /\ reparse' = [reparse EXCEPT !.line = 230]
                 ELSE /\ cfg' = cfg
                      /\ reparse' = NotReparsing
         [] reparse.line = 230 ->
             /\ cfg' = [cfg EXCEPT !.lastmtime = reparse.modtime,
                                   !.old_sections = cfg.parser]
             /\ reparse' = [reparse EXCEPT !.line = 235]
         [] reparse.line = 235 ->
             /\ cfg' = [cfg EXCEPT !.parents = <<>>]
             /\ reparse' = [reparse EXCEPT !.line = 236]
         [] reparse.line = 236 ->
             /\ cfg' = [cfg EXCEPT !.parents = BuildParents(cfg.parser, disk)]
             /\ reparse' = [reparse EXCEPT !.line = 248]
         [] reparse.line = 248 ->
             /\ cfg' = [cfg EXCEPT !.cache_attr = TRUE]
             /\ reparse' = NotReparsing
    /\ last' = Idle("monitor")
    /\ UNCHANGED <<held, disk, registry, nenv, mods, plugins, monitoring, mtimes, order,
                   pos, tick, failed>>

\* no monitor thread: nothing watched
NoMonitor ==
    /\ mods = [f \in Modules |-> [exists |-> TRUE, mtime |-> 1]]
    /\ plugins = [d \in Dependents |-> [alive |-> TRUE, bad |-> FALSE]]
    /\ monitoring = <<>>
    /\ mtimes = [f \in Watchable |-> NotSeen]
    /\ order = <<>>
    /\ pos = 0
    /\ tick = NoTick
    /\ failed = {}
    /\ reparse = NotReparsing
    /\ held = NoHeld

\* ------------------------------------------------------- specification
ChildData ==
    [SetKey(EmptyParser, "x", "a", "1") EXCEPT
        !.inherit = [has |-> TRUE, files |-> <<"p">>]]

ParentData ==
    [SetKey(EmptyParser, "x", "a", "2") EXCEPT
        !.inherit = [has |-> TRUE, files |-> <<"q">>]]

GrandParentData == SetKey(EmptyParser, "x", "a", "1")

InitDisks ==
    {[f \in Files |->
        IF f = "c" THEN (IF childExists THEN FileWith(ChildData) ELSE NoFile)
        ELSE IF f = "p" THEN FileWith(ParentData)
        ELSE FileWith(GrandParentData)] : childExists \in BOOLEAN}

NoRegistry == [o \in Sections \X Keys |-> Absent]

InitRegistries == {NoRegistry, [NoRegistry EXCEPT ![<<"x", "a">>] = "3"]}

Init ==
    /\ disk \in InitDisks
    /\ registry \in InitRegistries
    /\ cfg = Construct(Root, disk)
    /\ last = Idle("init")
    /\ nenv = 0
    /\ NoMonitor

Inherits(f) == {NoInherit} \cup {[has |-> TRUE, files |-> l] : l \in InheritLists(f)}

Next ==
    \/ \E force \in BOOLEAN : ParseAct(force)
    \/ \E name \in Sections, key \in Keys, default \in Defaults :
          GetAct(name, key, default)
    \/ \E name \in Sections, key \in Keys : RemoveAct(name, key)
    \/ \E f \in Files, name \in Sections, key \in Keys, value \in WriteVals \cup {Absent} :
          WriteKey(f, name, key, value)
    \/ \E f \in Files : \E inh \in Inherits(f) : WriteInherit(f, inh)
    \/ \E f \in Files : DeleteFile(f)
    \/ \E f \in Files : Chmod(f)

Spec == Init /\ [][Next]_vars

\* ------------------------------------------- resolution on static files
\* values a file can hold for a key in the resolution runs
ResolveVals == Vals \cup {Latin1Bytes}

FileContents(f) ==
    {[EmptyParser EXCEPT !.inherit = inh] : inh \in Inherits(f)} \cup
    {[SetKey(EmptyParser, name, key, value) EXCEPT !.inherit = inh] :
        name \in Sections, key \in Keys, value \in ResolveVals, inh \in Inherits(f)}

FileStates(f) == {NoFile} \cup {FileWith(data) : data \in FileContents(f)}

AllRegistries ==
    {NoRegistry} \cup
    {[NoRegistry EXCEPT ![o] = d] : o \in Sections \X Keys, d \in RegDefaults}

InitResolve ==
    /\ disk \in [Files -> UNION {FileStates(f) : f \in Files}]
    /\ \A f \in Files : disk[f] \in FileStates(f)
    /\ registry \in AllRegistries
    /\ cfg = Construct(Root, disk)
    /\ last = Idle("init")
    /\ nenv = 0
    /\ NoMonitor

NextResolve ==
    \/ \E force \in BOOLEAN : ParseAct(force)
    \/ \E name \in Sections, key \in Keys, default \in Defaults :
          GetAct(name, key, default)

SpecResolve == InitResolve /\ [][NextResolve]_vars

\* ------------------------------------------------------------- claims
\* The explicit value of (name, key) in the file chain of c: the file's own
\* value, else that of the first parent (in order, each searched the same
\* way) that has one, else Absent. Caches are not consulted.
RECURSIVE Explicit(_, _, _)
RECURSIVE FirstExplicit(_, _, _, _)
FirstExplicit(parents, i, name, key) ==
    IF i > Len(parents) THEN Absent
    ELSE IF Explicit(parents[i], name, key) # Absent
         THEN Explicit(parents[i], name, key)
         ELSE FirstExplicit(parents, i + 1, name, key)

\* the value the parsed data of c itself holds, or Absent
OwnValue(c, name, key) ==
    IF c.parser.secs[name].present THEN c.parser.secs[name].opts[key] ELSE Absent

Explicit(c, name, key) ==
    IF OwnValue(c, name, key) # Absent
    THEN OwnValue(c, name, key)
    ELSE FirstExplicit(c.parents, 1, name, key)

\* a value as get hands it out: None and "" as "", bytes decoded
AsReturned(value) == IF value \in {"", None} THEN "" ELSE ToUnicode(value)

\* the precedence of invariant I1
Precedence(c, name, key, default, reg) ==
    IF Explicit(c, name, key) # Absent THEN AsReturned(Explicit(c, name, key))
    ELSE IF reg[<<name, key>>] # Absent THEN AsReturned(reg[<<name, key>>])
    ELSE default

\* C1: a get on a Configuration whose caches are all empty returns the first
\* available of: the file's own explicit value, the explicit value of the
\* first parent (in inherit.file order, depth-first) that has one, the
\* registry default, the caller's default; parents contribute explicit values
\* only.
C1_Precedence ==
    (last.op = "get" /\ last.fresh) =>
        last.val = Precedence(cfg, last.sec, last.key, last.dflt, registry)

\* C1 witness: the value came from a grandparent, reached through the
\* parent, while the registry and the caller offered other values
C1_Witness ==
    /\ last.op = "get" /\ last.fresh /\ last.dflt = "9"
    /\ Len(cfg.parents) = 1
    /\ OwnValue(cfg, last.sec, last.key) = Absent
    /\ OwnValue(cfg.parents[1], last.sec, last.key) = Absent
    /\ Len(cfg.parents[1].parents) = 1
    /\ OwnValue(cfg.parents[1].parents[1], last.sec, last.key) = "1"
    /\ registry[<<last.sec, last.key>>] = "3"
    /\ last.val = "1"

\* C2: a key set to the empty string in the file itself is returned as ""
\* and cached as ""; on empty caches an explicit empty value in a parent wins
\* over a later parent, the registry default and the caller's default.
C2_EmptyValue ==
    last.op = "get" =>
        /\ OwnValue(cfg, last.sec, last.key) = ""
           => (last.val = "" /\ cfg.sections[last.sec].cache[last.key] = "")
        /\ (last.fresh /\ Explicit(cfg, last.sec, last.key) = "")
           => (last.val = "" /\ cfg.sections[last.sec].cache[last.key] = "")

\* C2 witness: the first parent holds "", the second parent "1", the registry
\* "3", the caller passed "9", and get returned ""
C2_Witness ==
    /\ last.op = "get" /\ last.fresh /\ last.dflt = "9"
    /\ OwnValue(cfg, last.sec, last.key) = Absent
    /\ Len(cfg.parents) = 2
    /\ OwnValue(cfg.parents[1], last.sec, last.key) = ""
    /\ OwnValue(cfg.parents[2], last.sec, last.key) = "1"
    /\ registry[<<last.sec, last.key>>] = "3"
    /\ last.val = ""
    /\ cfg.sections[last.sec].cache[last.key] = ""

\* the value file f holds on disk for (name, key), or Absent
OnDisk(f, name, key) ==
    IF disk[f].exists /\ disk[f].data.secs[name].present
    THEN disk[f].data.secs[name].opts[key]
    ELSE Absent

\* C3: get returned a value, the file was then saved with another value for
\* the key and a later modification time, parse_if_needed completed: the next
\* get returns the value the file holds now (whatever get returned or cached
\* before).
C3_ReparseVisible ==
    (/\ last.op = "get"
     /\ last.afterParse
     /\ OnDisk(Root, last.sec, last.key) # Absent)
    => last.val = AsReturned(OnDisk(Root, last.sec, last.key))

\* C3 witness: "1" was cached, the file was re-parsed after an earlier parse
\* and get returned the new value "2"
C3_Witness ==
    /\ last.op = "get" /\ last.afterParse
    /\ last.before = "1"
    /\ OnDisk(Root, last.sec, last.key) = "2"
    /\ last.val = "2"
    /\ cfg.lastmtime > 1

\* c with every Section cache of the tree emptied
RECURSIVE Uncached(_)
Uncached(c) ==
    [c EXCEPT !.sections = [s \in Sections |->
                              [made |-> c.sections[s].made, cache |-> EmptyOpts]],
              !.parents = [i \in 1..Len(c.parents) |-> Uncached(c.parents[i])]]

\* C4: once parse_if_needed has completed, every value held in a Section
\* cache of the application's Configuration equals what an uncached
\* resolution gives (so a value cached from a parent is dropped when
\* parse_if_needed re-parses that parent).
C4_CacheCoherent ==
    (last.op = "parse" /\ last.err = NoErr) =>
        \A s \in Sections, k \in Keys :
            cfg.sections[s].cache[k] # Absent =>
                cfg.sections[s].cache[k] =
                    ConfigGet(Uncached(cfg), s, k, "", registry).value

\* C5: parse_if_needed(force=False) called twice in a row, no file modified
\* in between, returns False from the second call.
C5_Idempotent ==
    [][(/\ last.op = "parse" /\ ~last.force /\ last.err = NoErr
        /\ last'.op = "parse" /\ ~last'.force)
       => (~last'.changed /\ last'.err = NoErr)]_vars

\* a Configuration as __init__ leaves it for file f with the disk as it is
IsFresh(c, f) ==
    /\ c.filename = f
    /\ c.lastmtime = 0
    /\ c.parents = <<>>
    /\ c.sections = NoSections
    /\ c.parser = IF disk[f].exists /\ disk[f].readable
                  THEN disk[f].data ELSE EmptyParser

\* C6: an unforced parse_if_needed that completes on an existing file
\* re-parses exactly when the file's time is strictly past the recorded one:
\* it then returns True, records the time, holds the file's content and has
\* one fresh parent per entry of inherit.file, in order (none without the
\* directive); otherwise this file's data, time, proxies and parents list
\* stay as they were.
C6_Staleness ==
    [][(/\ last'.op = "parse" /\ ~last'.force /\ last'.err = NoErr
        /\ disk[Root].exists)
       => IF disk[Root].mtime > cfg.lastmtime
          THEN /\ last'.changed
               /\ cfg'.lastmtime = disk[Root].mtime
               /\ cfg'.parser = disk[Root].data
               /\ Len(cfg'.parents) = Len(disk[Root].data.inherit.files)
               /\ \A i \in 1..Len(cfg'.parents) :
                     IsFresh(cfg'.parents[i], disk[Root].data.inherit.files[i])
          ELSE /\ cfg'.parser = cfg.parser
               /\ cfg'.lastmtime = cfg.lastmtime
               /\ cfg'.sections = cfg.sections
               /\ Len(cfg'.parents) = Len(cfg.parents)
               /\ \A i \in 1..Len(cfg.parents) :
                     cfg'.parents[i].filename = cfg.parents[i].filename]_vars

\* C6 witness: a second parse found the time advanced and rebuilt the parents
\* as q, p in the order of the new directive
C6_Witness ==
    /\ last.op = "parse" /\ ~last.force /\ last.changed
    /\ last.was >= 1
    /\ cfg.lastmtime > last.was
    /\ Len(cfg.parents) = 2
    /\ cfg.parents[1].filename = "q"
    /\ cfg.parents[2].filename = "p"
    /\ cfg.parser = disk[Root].data

\* every Configuration of the tree whose file never existed holds no data
RECURSIVE NeverCreatedAreEmpty(_)
NeverCreatedAreEmpty(c) ==
    /\ (~disk[c.filename].exists /\ disk[c.filename].mtime = 0)
       => (c.parser = EmptyParser /\ c.parents = <<>>)
    /\ \A i \in 1..Len(c.parents) : NeverCreatedAreEmpty(c.parents[i])

\* parse_if_needed, forced or not, on a missing file: returns False, raises
\* nothing and changes nothing
MissingIsNoOp ==
    (last'.op = "parse" /\ ~disk[Root].exists)
    => (cfg' = cfg /\ ~last'.changed /\ last'.err = NoErr)

\* C7 as stated: parse_if_needed on a missing file is a no-op, and a
\* Configuration whose file is missing holds no explicit values of its own.
C7_MissingIsEmpty ==
    /\ [][MissingIsNoOp]_vars
    /\ [](~disk[Root].exists => cfg.parser = EmptyParser)

\* C7 amended: parse_if_needed on a missing file is a no-op, and a
\* Configuration whose file has never existed holds no explicit values (one
\* whose file was deleted keeps the values it parsed).
C7_MissingNoOp ==
    /\ [][MissingIsNoOp]_vars
    /\ []NeverCreatedAreEmpty(cfg)

\* C7 witness: a forced parse_if_needed was called while the file, read
\* earlier, is deleted, and the parsed data is still there
C7_Witness ==
    /\ last.op = "parse" /\ last.force
    /\ ~disk[Root].exists
    /\ ~last.changed /\ last.err = NoErr
    /\ cfg.parser # EmptyParser

\* C8: a due parse_if_needed on an existing file that cannot be read fails
\* with IOError.
C8_ReadError ==
    (/\ last.op = "parse"
     /\ disk[Root].exists /\ ~disk[Root].readable
     /\ (last.force \/ last.was < disk[Root].mtime))
    => last.err = "IOError"

\* C9: remove completes without error and deletes the file's own entry, so
\* that get then resolves as with the key absent from the file.
C9_Remove ==
    last.op = "remove" =>
        /\ last.err = NoErr
        /\ OwnValue(cfg, last.sec, last.key) = Absent
        /\ \A d \in Defaults :
              ConfigGet(cfg, last.sec, last.key, d, registry).value =
                  Precedence([cfg EXCEPT !.parser.secs[last.sec].opts[last.key] = Absent],
                             last.sec, last.key, d, registry)

\* ----------------------------------------------- the monitor thread runs
\* burp.monitoring as the extender fills it: the configuration file with the
\* Configuration, the module file with its two handlers
Registered == [f \in Watchable |-> IF f = Root THEN <<"cfg">> ELSE <<"h1", "h2">>]

InitMon ==
    /\ disk = [f \in Files |->
                 IF f = Root THEN FileWith(SetKey(EmptyParser, "x", "a", "1"))
                 ELSE NoFile]
    /\ registry = NoRegistry
    /\ cfg = Construct(Root, disk)
    /\ last = Idle("init")
    /\ nenv = 0
    /\ mods = [f \in Modules |-> [exists |-> TRUE, mtime |-> 1]]
    /\ plugins = [d \in Dependents |-> [alive |-> TRUE, bad |-> FALSE]]
    /\ monitoring = Registered
    /\ mtimes = MonitorInit(DOMAIN monitoring)
    /\ order \in {<<Root, "m">>, <<"m", Root>>}
    /\ pos = 0
    /\ tick = NoTick
    /\ failed = {}
    /\ reparse = NotReparsing
    /\ held = NoHeld

NextMon ==
    \/ Wake
    \/ MonitorFile
    \/ \E f \in Modules, bad \in SUBSET Handlers : SaveModule(f, bad)
    \/ \E dep \in Handlers : Collect(dep)
    \/ \E name \in Sections, key \in Keys, value \in WriteVals \cup {Absent} :
          WriteKey(Root, name, key, value)
    \/ Chmod(Root)
    \/ DeleteFile(Root)

SpecMon == InitMon /\ [][NextMon]_vars

\* the thread never stops: time.sleep returns and the for loop goes on to
\* its next file  (monitor.py:78-85)
FairSpecMon == SpecMon /\ WF_vars(Wake) /\ WF_vars(MonitorFile)

\* the dependents of f that are alive
Alive(f) == {d \in Dependents : \E i \in 1..Len(monitoring[f]) :
                                   monitoring[f][i] = d /\ plugins[d].alive}

\* C10: two watched files had both changed when a pass of the loop started
\* and the reload action of a dependent of one of them raised: the same pass
\* detects the other file's change and invokes the reload action of each of
\* its dependents, whichever file is visited first.
C10_SameTick ==
    (pos = 0 /\ tick.ran) =>
        \A A \in DOMAIN monitoring, B \in DOMAIN monitoring :
            (A # B /\ {A, B} \subseteq tick.changed
             /\ tick.raised = A /\ tick.cause = "reload")
            => /\ B \in tick.detected
               /\ \A d \in Alive(B) : \E i \in 1..Len(tick.invoked) :
                     tick.invoked[i] = d

\* ---------------------------------------------------- the grandparents
\* file f is there, readable, and names parents
NamesParents(f) ==
    disk[f].exists /\ disk[f].readable /\ disk[f].data.inherit.has

\* the files f's inherit.file directive names, in order
ParentFiles(f) == disk[f].data.inherit.files

\* neither the application's file nor a file it names as parent holds
\* (name, key); the file g, named as parent by one of those parents, holds it
OnlyInGrandparent(name, key, g) ==
    /\ NamesParents(Root)
    /\ OnDisk(Root, name, key) = Absent
    /\ \A i \in 1..Len(ParentFiles(Root)) :
          /\ disk[ParentFiles(Root)[i]].exists
          /\ disk[ParentFiles(Root)[i]].readable
          /\ OnDisk(ParentFiles(Root)[i], name, key) = Absent
    /\ \E i \in 1..Len(ParentFiles(Root)) :
          /\ NamesParents(ParentFiles(Root)[i])
          /\ ParentFiles(ParentFiles(Root)[i]) = <<g>>
    /\ disk[g].exists
    /\ disk[g].readable
    /\ OnDisk(g, name, key) # Absent

\* C20: right after one parse_if_needed that re-read the application's file
\* and rebuilt its parents, get of a key that only a grandparent file holds
\* returns the grandparent's value.
C20_Grandparent ==
    \A g \in Files :
        (/\ last.op = "get"
         /\ last.afterParse
         /\ OnlyInGrandparent(last.sec, last.key, g))
        => last.val = AsReturned(OnDisk(g, last.sec, last.key))

\* ------------------------------------ options registered while running
InheritOnly(f) == [EmptyParser EXCEPT !.inherit = [has |-> TRUE, files |-> <<f>>]]

RegistryDisks ==
    {[f \in Files |-> IF f = "c" THEN FileWith(c)
                      ELSE IF f = "p" THEN FileWith(pp)
                      ELSE FileWith(q)] :
        c \in {InheritOnly("p"), ChildData,
               [SetKey(EmptyParser, "x", "a", "") EXCEPT !.inherit = InheritOnly("p").inherit]},
        pp \in {InheritOnly("q"), ParentData},
        q \in {EmptyParser, GrandParentData}}

InitRegistry ==
    /\ disk \in RegistryDisks
    /\ registry = NoRegistry
    /\ cfg = Construct(Root, disk)
    /\ last = Idle("init")
    /\ nenv = 0
    /\ NoMonitor

NextRegistry ==
    \/ \E force \in BOOLEAN : ParseAct(force)
    \/ \E name \in Sections, key \in Keys, default \in Defaults :
          GetAct(name, key, default)
    \/ \E name \in Sections, key \in Keys, default \in RegDefaults :
          RegisterAct(name, key, default)

SpecRegistry == InitRegistry /\ [][NextRegistry]_vars

\* C17: a get of a key that neither the file chain nor the registry has
\* returns the caller's default, whatever default an earlier get was given,
\* and leaves the Section cache without an entry for the key; every other
\* get leaves its result (the empty string too) in the cache, and when the
\* key is only in the registry and nothing was cached for it, the result is
\* the registered default, with no reparse needed after the registration.
C17_DefaultNotCached ==
    [][last'.op = "get" =>
          LET s == last'.sec
              k == last'.key
              e == Explicit(cfg, s, k)
          IN  IF e = Absent /\ registry[<<s, k>>] = Absent
              THEN /\ last'.val = last'.dflt
                   /\ cfg'.sections[s].cache[k] = Absent
              ELSE /\ cfg'.sections[s].cache[k] = last'.val
                   /\ (e = Absent /\ cfg.sections[s].cache[k] = Absent)
                      => last'.val = AsReturned(registry[<<s, k>>])]_vars

\* C17 witness: get returned the caller's default "9" for a key nothing
\* defines, an Option with default "3" was then registered for it, and the
\* get right after returned "3"
C17_Witness ==
    /\ last.op = "get"
    /\ last.val = "3"
    /\ last.before = "9"
    /\ Explicit(cfg, "x", "a") = Absent

\* ---------------------------------------------- has_option and contains
QuerySections == Sections \cup {DefaultSect}

QueryKeys == Keys \cup {NameKey}

InitQuery ==
    /\ disk \in RegistryDisks
    /\ registry \in AllRegistries
    /\ cfg = Construct(Root, disk)
    /\ last = Idle("init")
    /\ nenv = 0
    /\ NoMonitor

NextQuery ==
    \/ \E force \in BOOLEAN : ParseAct(force)
    \/ \E name \in QuerySections, key \in QueryKeys, defaults \in BOOLEAN :
          HasOptionAct(name, key, defaults)
    \/ \E name \in QuerySections, key \in QueryKeys, defaults \in BOOLEAN :
          ContainsAct(name, key, defaults)

SpecQuery == InitQuery /\ [][NextQuery]_vars

\* the key is explicit in the section of the file of c or of an ancestor
ExplicitSomewhere(c, name, key) ==
    name \in Sections /\ key \in Keys /\ Explicit(c, name, key) # Absent

\* C18: has_option(section, key, defaults) and contains(key, defaults) of
\* that section return the same result, which is true iff the key is
\* explicit in the section of this file or of an ancestor file, or defaults
\* is set and (section, key) is in the option registry.
C18_SameAnswer ==
    last.op \in {"has_option", "contains"} =>
        /\ ConfigHasOption(cfg, last.sec, last.key, last.force, registry)
             = SectionContains(cfg, last.sec, last.key, last.force, registry)
        /\ last.changed = (\/ ExplicitSomewhere(cfg, last.sec, last.key)
                           \/ (last.force /\ InRegistry(registry, last.sec, last.key)))

\* ------------------------------------------------------- Section.iterate
\* the sequences of at most n different names
NameLists(n) ==
    {l \in UNION {[1..m -> Names] : m \in 0..n} :
        \A i \in 1..Len(l), j \in 1..Len(l) : i # j => l[i] # l[j]}

\* a file without parents, a file with at most one such parent
LeafTrees == {[options |-> o, parents |-> <<>>] : o \in NameLists(1)}

MidTrees ==
    LeafTrees \cup {[options |-> o, parents |-> <<g>>] : o \in NameLists(1), g \in LeafTrees}

\* the Configurations iterate is run on: up to two options in the file, no
\* parent, one parent (which may have a parent), or two parents
IterTrees ==
    {[options |-> o, parents |-> ps] :
        o \in NameLists(2),
        ps \in {<<>>} \cup {<<m>> : m \in MidTrees}
                     \cup {<<l1, l2>> : l1 \in LeafTrees, l2 \in LeafTrees}}

InitIterate ==
    /\ disk = [f \in Files |-> NoFile]
    /\ registry = NoRegistry
    /\ cfg = Construct(Root, disk)
    /\ last \in {[op |-> "init", tree |-> t, reg |-> r, defaults |-> FALSE, out |-> <<>>] :
                    t \in IterTrees, r \in NameLists(2)}
    /\ nenv = 0
    /\ NoMonitor

NextIterate == \E defaults \in BOOLEAN : IterateAct(defaults)

SpecIterate == InitIterate /\ [][NextIterate]_vars

\* the names of seq from index i on, each kept unless a name equal to it
\* but for the case of its letters came before
RECURSIVE FirstSpellings(_, _, _)
FirstSpellings(seq, i, seen) ==
    IF i > Len(seq)
    THEN <<>>
    ELSE IF LowerCase(seq[i]) \in seen
    THEN FirstSpellings(seq, i + 1, seen)
    ELSE <<seq[i]>> \o FirstSpellings(seq, i + 1, seen \cup {LowerCase(seq[i])})

\* the explicit keys of a tree: the file's in file order, then each
\* parent's (found the same way), parents in order
RECURSIVE ExplicitKeys(_)
RECURSIVE ParentsKeys(_, _)
ParentsKeys(parents, i) ==
    IF i > Len(parents) THEN <<>>
    ELSE ExplicitKeys(parents[i]) \o ParentsKeys(parents, i + 1)

ExplicitKeys(tree) == tree.options \o ParentsKeys(tree.parents, 1)

\* C19: iterate yields no two keys that are equal but for the case of their
\* letters, in the order: the file's keys in file order, then each parent's
\* keys not seen yet, then (with defaults) the registered keys not seen yet.
C19_IterateDistinct ==
    last.op = "iterate" =>
        /\ \A i \in 1..Len(last.out), j \in 1..Len(last.out) :
              i # j => LowerCase(last.out[i]) # LowerCase(last.out[j])
        /\ last.out = FirstSpellings(ExplicitKeys(last.tree)
                                       \o (IF last.defaults THEN last.reg ELSE <<>>),
                                     1, {})

\* ------------------------- the monitor thread and a reader thread interleave
\* the application has parsed its file; the monitor watches it
InitRace ==
    /\ disk = [f \in Files |->
                 IF f = Root THEN FileWith(ChildData)
                 ELSE IF f = "p" THEN FileWith(ParentData)
                 ELSE FileWith(GrandParentData)]
    /\ registry \in InitRegistries
    /\ cfg = ParseIfNeeded(Construct(Root, disk), FALSE, disk).cfg
    /\ last = Idle("init")
    /\ nenv = 0
    /\ mods = [f \in Modules |-> [exists |-> TRUE, mtime |-> 1]]
    /\ plugins = [d \in Dependents |-> [alive |-> TRUE, bad |-> FALSE]]
    /\ monitoring = Registered
    /\ mtimes = MonitorInit(DOMAIN monitoring)
    /\ order = <<Root, "m">>
    /\ pos = 0
    /\ tick = NoTick
    /\ failed = {}
    /\ reparse = NotReparsing
    /\ held = NoHeld

NextRace ==
    \/ ReparseBegin
    \/ ReparseStep
    \/ \E name \in Sections, key \in Keys, default \in Defaults :
          GetAct(name, key, default)
    \/ Touch(Root)
    \/ \E name \in Sections, key \in Keys, value \in WriteVals \cup {Absent} :
          WriteKey(Root, name, key, value)

SpecRace == InitRace /\ [][NextRace]_vars

\* what get returns from a Configuration that has just parsed the files as
\* they are on disk
Settled(name, key, default) ==
    ConfigGet(ParseIfNeeded(Construct(Root, disk), TRUE, disk).cfg,
              name, key, default, registry).value

\* C16: a get that runs while the monitor thread is inside parse_if_needed
\* on the same Configuration, the text of the file being what was parsed
\* last, returns what a settled Configuration returns; and once the reparse
\* has completed on the file as it is, no Section cache holds, for a key
\* explicit in the file, another value than the file's.
C16_Serialized ==
    /\ (/\ last.op = "get"
        /\ reparse.line # 0
        /\ disk[Root].data = cfg.old_sections)
       => last.val = Settled(last.sec, last.key, last.dflt)
    /\ (/\ reparse.line = 0
        /\ disk[Root].exists
        /\ cfg.lastmtime = disk[Root].mtime)
       => \A s \in Sections, k \in Keys :
             (cfg.sections[s].cache[k] # Absent /\ OnDisk(Root, s, k) # Absent)
             => cfg.sections[s].cache[k] = AsReturned(OnDisk(Root, s, k))

\* ------------------------------------------------- the loop of the monitor
\* C11: an exception raised while a file is serviced (by a reload action or
\* by reading the file's modification time) ends in the sleep of the loop and
\* not in the end of the thread, and a later advance of the modification time
\* of a file whose servicing has raised is detected on a later pass.
C11_LoopSurvives ==
    /\ [][(tick'.raised # tick.raised /\ tick'.raised # "none") => pos' = 0]_vars
    /\ \A A \in Watchable :
          (A \in failed /\ Pending(A)) ~> ~Pending(A)

\* the dependents registered against f whose target still exists, in
\* registration order
LiveDependents(f) ==
    SelectSeq(monitoring[f], LAMBDA d : plugins[d].alive)

\* C12: when the loop comes to a watched file whose modification time is
\* greater than the recorded one, it records the new time and invokes the
\* reload action of every dependent of the file once, in registration order;
\* when the time has not advanced it records nothing and invokes nothing.
C12_EachDependentOnce ==
    [][(pos > 0 /\ pos' # pos) =>
          LET f == order[pos]
          IN  IF Pending(f)
              THEN /\ mtimes'[f] = GetMtime(f)
                   /\ tick'.invoked = tick.invoked \o LiveDependents(f)
              ELSE /\ mtimes' = mtimes
                   /\ tick'.invoked = tick.invoked]_vars

\* dep is in the current (or last) pass's list of invoked reload actions
Invoked(dep) == \E i \in 1..Len(tick.invoked) : tick.invoked[i] = dep

\* the reload action of a dependent of f raised in the last pass and the
\* live dependent d2 of f was not reached
LeftOut(f, d2) ==
    /\ pos = 0
    /\ tick.raised = f
    /\ tick.cause = "reload"
    /\ d2 \in Alive(f)
    /\ ~Invoked(d2)

\* C13: when the reload action of a dependent d1 of F raises for a
\* modification of F, the reload action of a later dependent d2 of F is still
\* invoked for that modification, in the same pass or a later one, unless F
\* changes again or d2's target vanishes first.
C13_Isolation ==
    \A f \in Watchable, d2 \in Dependents :
        LeftOut(f, d2) ~> (Invoked(d2) \/ Pending(f) \/ ~plugins[d2].alive)

\* the reload action of the live dependent dep raises in this state
Raises(dep) ==
    IF Kind(dep) = "Configuration"
    THEN ParseIfNeeded(cfg, TRUE, disk).err # NoErr
    ELSE plugins[dep].bad

\* the live dependents whose reload action runs: all of them up to the first
\* one that raises
Reached(live) ==
    IF \E i \in 1..Len(live) : Raises(live[i])
    THEN SubSeq(live, 1, CHOOSE i \in 1..Len(live) :
                            /\ Raises(live[i])
                            /\ \A j \in 1..(i - 1) : ~Raises(live[j]))
    ELSE live

\* C14: when the loop services a changed file one of whose dependents has a
\* vanished target, that dependent gets no reload action and raises nothing:
\* the pass goes on exactly as if the dependent were not registered, to the
\* remaining dependents of the file and to the next watched file.
C14_VanishedSkipped ==
    [][(/\ pos > 0
        /\ pos' # pos
        /\ Pending(order[pos])
        /\ Alive(order[pos]) # {d \in Dependents :
                                   \E i \in 1..Len(monitoring[order[pos]]) :
                                       monitoring[order[pos]][i] = d})
       => LET f == order[pos]
              live == LiveDependents(f)
              raises == \E i \in 1..Len(live) : Raises(live[i])
          IN  /\ tick'.invoked = tick.invoked \o Reached(live)
              /\ tick'.raised = (IF raises THEN f ELSE tick.raised)
              /\ pos' = (IF raises \/ pos = Len(order) THEN 0 ELSE pos + 1)]_vars

\* C14 witness: a pass serviced the module file while the target of h1 was
\* gone: h2 was reloaded, h1 was not, nothing was raised and the
\* configuration file, changed too, was serviced in the same pass
C14_Witness ==
    /\ pos = 0
    /\ tick.ran
    /\ tick.raised = "none"
    /\ ~plugins["h1"].alive
    /\ tick.detected = {"m", Root}
    /\ Invoked("h2")
    /\ Invoked("cfg")
    /\ ~Invoked("h1")

\* C15: a watched file A that is gone for good fails on every pass; every
\* advance of the modification time of another watched file B is still
\* detected, wherever A stands in the order of the loop.
C15_OthersServiced ==
    \A A \in Watchable : \A B \in Watchable \ {A} :
        (<>[](~WatchedExists(A))) => (Pending(B) ~> ~Pending(B))

\* ------------------------------------------------- C21: the no-op check
\* C21: a call parse_if_needed(force=False) that returns False without
\* raising leaves the whole Configuration as it was: the parsed data,
\* _lastmtime, the parents (the same objects in the same order, each as it
\* was), the Section proxies and every cached value.
C21_NoSpuriousInvalidation ==
    [][(/\ last'.op = "parse"
        /\ ~last'.force
        /\ ~last'.changed
        /\ last'.err = NoErr) => cfg' = cfg]_vars

\* an unforced call returned False on a parsed file that has a parent and a
\* cached value
C21_Witness ==
    /\ last.op = "parse"
    /\ ~last.force
    /\ ~last.changed
    /\ last.err = NoErr
    /\ disk[Root].exists
    /\ cfg.lastmtime = disk[Root].mtime
    /\ Len(cfg.parents) > 0
    /\ cfg.sections["x"].made
    /\ cfg.sections["x"].cache["a"] # Absent

\* ------------------------------------------- C25: a reparse that failed
\* C25: the call parse_if_needed(force=False) that directly follows a call
\* that raised attempts the reparse again: it raises or returns True, it
\* does not return False.
C25_RetryAfterFailure ==
    [][(/\ last.op = "parse"
        /\ last.err = ReadFailure
        /\ last'.op = "parse"
        /\ ~last'.force) => (last'.changed \/ last'.err # NoErr)]_vars

\* ------------------------------------------- C22: a Section kept across
\* a reparse
InitProxy ==
    /\ disk \in InitDisks
    /\ registry \in InitRegistries
    /\ cfg = Construct(Root, disk)
    /\ last = Idle("init")
    /\ nenv = 0
    /\ NoMonitor

NextProxy ==
    \/ \E force \in BOOLEAN : ParseAct(force)
    \/ \E name \in Sections : ObtainAct(name)
    \/ \E key \in Keys, default \in Defaults : SectionGetAct(key, default)
    \/ \E name \in Sections, key \in Keys, default \in Defaults :
          GetAct(name, key, default)
    \/ \E f \in Files, name \in Sections, key \in Keys, value \in WriteVals \cup {Absent} :
          WriteKey(f, name, key, value)

SpecProxy == InitProxy /\ [][NextProxy]_vars

\* C22: get called on a Section the application obtained earlier, right
\* after parse_if_needed returned True, returns the value the file holds now
\* for the key, and that Section is still the object the Configuration
\* hands out for its name.
C22_HeldInvalidated ==
    (/\ last.op = "section.get"
     /\ last.afterParse
     /\ OnDisk(Root, last.sec, last.key) # Absent)
    => /\ last.val = AsReturned(OnDisk(Root, last.sec, last.key))
       /\ held.attached

\* ---------------------------------------------- C23: inherit.file cycles
\* the deepest chain of parents to survive in the model
MaxDepth == 3

\* the length of the longest chain of instantiated parents below c
RECURSIVE Depth(_)
Depth(c) ==
    IF Len(c.parents) = 0 THEN 0
    ELSE 1 + CHOOSE n \in {Depth(c.parents[i]) : i \in 1..Len(c.parents)} :
                 \A i \in 1..Len(c.parents) : Depth(c.parents[i]) <= n

\* inherit.file directives naming any of the files, the file itself included
CycleInherits ==
    {[has |-> TRUE, files |-> l] :
        l \in {<<f>> : f \in Files} \cup {<<f, g>> : f \in {"p"}, g \in {"c"}}}

\* burp.ini naming itself, or naming p.ini which names burp.ini back
CycleDisks ==
    {[f \in Files |->
        FileWith([SetKey(EmptyParser, "x", "a", IF f = "q" THEN "1" ELSE Absent)
                     EXCEPT !.inherit = inh[f]])] :
        inh \in {[c |-> [has |-> TRUE, files |-> <<"c">>],
                  p |-> NoInherit, q |-> NoInherit],
                 [c |-> [has |-> TRUE, files |-> <<"p">>],
                  p |-> [has |-> TRUE, files |-> <<"c">>], q |-> NoInherit],
                 [c |-> [has |-> TRUE, files |-> <<"p", "c">>],
                  p |-> [has |-> TRUE, files |-> <<"q", "p">>], q |-> NoInherit]}}

\* what the file and the registry give iterate for section name: the
\* options the parser holds, per Configuration of the tree, and the
\* registered names
RECURSIVE OptionTree(_, _)
OptionTree(c, name) ==
    [options |-> IF HasOption(c.parser, name, "a") THEN <<"a">> ELSE <<>>,
     parents |-> [i \in 1..Len(c.parents) |-> OptionTree(c.parents[i], name)]]

RegisteredNames(reg, name) ==
    IF reg[<<name, "a">>] # Absent THEN <<"a">> ELSE <<>>

\* the application runs list(config[name].iterate(defaults)); the record
\* keeps the number of keys yielded
IterateCfgAct(name, defaults) ==
    /\ last' = [Idle("iterate") EXCEPT
                  !.sec = name, !.force = defaults,
                  !.was = Len(Iterate(OptionTree(cfg, name),
                                      RegisteredNames(registry, name), defaults))]
    /\ UNCHANGED <<disk, registry, cfg, nenv, monvars, held>>

\* parse_if_needed while the chain of parents is not deeper than MaxDepth
ParseBounded(force) == Depth(cfg) < MaxDepth /\ ParseAct(force)

InitCycle ==
    /\ disk \in CycleDisks
    /\ registry \in InitRegistries
    /\ cfg = Construct(Root, disk)
    /\ last = Idle("init")
    /\ nenv = 0
    /\ NoMonitor

NextCycle ==
    \/ \E force \in BOOLEAN : ParseBounded(force)
    \/ \E name \in Sections, key \in Keys, default \in Defaults :
          GetAct(name, key, default)
    \/ \E name \in Sections, key \in Keys, defaults \in BOOLEAN :
          HasOptionAct(name, key, defaults)
    \/ \E name \in Sections, defaults \in BOOLEAN : IterateCfgAct(name, defaults)
    \/ \E inh \in CycleInherits : WriteInherit(Root, inh)

SpecCycle == InitCycle /\ [][NextCycle]_vars

\* C23: with inherit.file directives that form cycles, one call of
\* parse_if_needed leaves the chain of instantiated parents at most one
\* level deeper than it found it, and get, has_option and iterate walk that
\* chain without extending it (iterate yielding each key once): every call
\* works on a finite tree and ends.
C23_OneLevelPerCall ==
    [][/\ last'.op = "parse" => Depth(cfg') <= Depth(cfg) + 1
       /\ last'.op \in {"get", "has_option", "iterate"} => Depth(cfg') = Depth(cfg)
       /\ last'.op = "iterate" => last'.was <= 1]_vars

\* burp.ini names itself as parent: two calls of parse_if_needed have
\* instantiated it twice below the application's Configuration, and get has
\* walked that chain and returned
C23_Witness ==
    /\ disk[Root].data.inherit.files = <<Root>>
    /\ Depth(cfg) = 2
    /\ cfg.parents[1].filename = Root
    /\ cfg.parents[1].parents[1].filename = Root
    /\ last.op = "get"

\* ------------------------------------------- C24: the monitor's baseline
\* the owner of burp.monitoring registers the dependents of file f after the
\* monitor was constructed, between two passes of its loop; ord is the order
\* in which monitoring.iteritems() yields the files from then on
\* (monitor.py:80)
AddWatch(f, ord) ==
    /\ pos = 0
    /\ f \notin DOMAIN monitoring
    /\ monitoring' = [g \in DOMAIN monitoring \cup {f} |-> Registered[g]]
    /\ order' = ord
    /\ last' = Idle("watch")
    /\ UNCHANGED <<held, disk, registry, cfg, nenv, mods, plugins, mtimes, pos, tick,
                   failed, reparse>>

\* the monitor is constructed while only the configuration file is watched
InitWatch ==
    /\ disk = [f \in Files |->
                 IF f = Root THEN FileWith(SetKey(EmptyParser, "x", "a", "1"))
                 ELSE NoFile]
    /\ registry = NoRegistry
    /\ cfg = Construct(Root, disk)
    /\ last = Idle("init")
    /\ nenv = 0
    /\ mods = [f \in Modules |-> [exists |-> TRUE, mtime |-> 1]]
    /\ plugins = [d \in Dependents |-> [alive |-> TRUE, bad |-> FALSE]]
    /\ monitoring = [f \in {Root} |-> Registered[f]]
    /\ mtimes = MonitorInit(DOMAIN monitoring)
    /\ order = <<Root>>
    /\ pos = 0
    /\ tick = NoTick
    /\ failed = {}
    /\ reparse = NotReparsing
    /\ held = NoHeld

NextWatch ==
    \/ Wake
    \/ MonitorFile
    \/ \E f \in Modules, ord \in {<<Root, "m">>, <<"m", Root>>} : AddWatch(f, ord)
    \/ \E f \in Modules, bad \in SUBSET Handlers : SaveModule(f, bad)
    \/ \E dep \in Handlers : Collect(dep)
    \/ \E name \in Sections, key \in Keys, value \in WriteVals \cup {Absent} :
          WriteKey(Root, name, key, value)

SpecWatch == InitWatch /\ [][NextWatch]_vars

\* C24: the loop visits a watched file. If it is the configuration file,
\* watched when the monitor was constructed and not saved since, no reload
\* action is invoked. If the monitor has no time recorded for the file (it
\* was added to the watch-set after construction), the file's time is
\* recorded and each of its dependents with a live target is reloaded, once.
\* If the recorded time is the file's time, no reload action is invoked.
C24_Baseline ==
    [][(pos > 0 /\ pos' # pos)
       => LET f == order[pos]
          IN  /\ (f = Root /\ disk[Root].exists /\ disk[Root].mtime = 1)
                    => tick'.invoked = tick.invoked
              /\ (WatchedExists(f) /\ mtimes[f] = NotSeen)
                    => /\ mtimes'[f] = GetMtime(f)
                       /\ tick'.invoked = tick.invoked \o LiveDependents(f)
              /\ (WatchedExists(f) /\ mtimes[f] = GetMtime(f))
                    => /\ mtimes' = mtimes
                       /\ tick'.invoked = tick.invoked]_vars

====
